---------------------------- MODULE Spec2Model ----------------------------
(***************************************************************************)
(* A model of the Logo interpreter (logo.py, logo_parser.py, buffer.py,    *)
(* logo_primitives.py).                                                    *)
(*                                                                         *)
(* Representation.  A Python str is a sequence of one-character strings.   *)
(* A runtime value / token is a tagged record:                             *)
(*     [k |-> "none", v |-> <<>>]        None                              *)
(*     [k |-> "w",    v |-> chars]       a word (Python str)               *)
(*     [k |-> "l",    v |-> elements]    a sentence (Python list)          *)
(*     [k |-> "out",  v |-> payload]     the tuple ('OUTPUT', payload)     *)
(* The evaluator is a family of mutually recursive operators that thread   *)
(* the interpreter state st (frames, procedure table, standard output, the *)
(* remaining source lines, and a history of events) and return a record    *)
(* [st, val, err, idx]: the state after the call, the value returned, the  *)
(* exception raised (kind "" when none) and the Buffer index.              *)
(*                                                                         *)
(* Modelled primitives: print show type make if ifelse repeat run output   *)
(* stop sum difference product equalp lessp greaterp.  Numerals are        *)
(* decimal integers with an optional leading "-".                          *)
(***************************************************************************)
EXTENDS Integers, Sequences, FiniteSets, TLC

VARIABLES
    frames,     \* Environment._frames: sequence of frames (name -> value)
    procs,      \* user-defined entries of Environment.procedures
    out,        \* standard output, a sequence of characters / message tags
    src,        \* lines of the source not yet read (shared by both readers)
    pc,         \* read_eval_loop: "running", "returned" or "crashed"
    lastErr,    \* exception raised by the last line read ("" kind if none)
    lastRead,   \* what the last get_next_line() produced
    preDepth,   \* history: Len(frames) before the last line was interpreted
    log,        \* history: events of the last line interpreted
    nitems,     \* number of scripts supplied so far by the line source
    goodbyes,   \* history: number of times Goodbye! was printed
    inp,        \* input of the pure-function specifications
    res         \* result of the pure-function specifications

vars == <<frames, procs, out, src, pc, lastErr, lastRead, preDepth, log,
          nitems, goodbyes, inp, res>>

-----------------------------------------------------------------------------
(* Bounds *)

MaxItems == 2        \* scripts supplied to one REPL session
MaxCallDepth == 4    \* nesting of user-procedure applications in one line
MaxStack == 3        \* frame stack depth in the Environment specification
MaxOps == 3          \* infix operators in one expression
MaxLit == 2          \* integer literals 1..MaxLit in infix expressions
MaxLen == 3          \* elements of a sentence handed to type
MaxNest == 1         \* nesting depth of a sentence handed to type
MaxChars == 5        \* characters of a line handed to parse_line
MaxArity == 2        \* parameters of a procedure handed to apply_procedure
MaxTokens == 4       \* tokens of a line handed to apply_procedure
MaxTokLen == 3       \* characters of a token handed to logo_eval
MaxSrc == 3          \* lines the source holds after a definition line
MaxParams == 2       \* formal parameters of a definition line

-----------------------------------------------------------------------------
(* Values *)

None == [k |-> "none", v |-> <<>>]
W(s) == [k |-> "w", v |-> s]
L(e) == [k |-> "l", v |-> e]
OUTPUT(x) == [k |-> "out", v |-> x]

IsWord(x, s) == x.k = "w" /\ x.v = s

s_True == <<"T","r","u","e">>
s_False == <<"F","a","l","s","e">>
s_OUTPUT == <<"O","U","T","P","U","T">>
s_to == <<"t","o">>
s_end == <<"e","n","d">>

Digits == {"0","1","2","3","4","5","6","7","8","9"}

DigitVal(c) ==
    CASE c = "0" -> 0 [] c = "1" -> 1 [] c = "2" -> 2 [] c = "3" -> 3
      [] c = "4" -> 4 [] c = "5" -> 5 [] c = "6" -> 6 [] c = "7" -> 7
      [] c = "8" -> 8 [] c = "9" -> 9

DigitChar(d) == <<"0","1","2","3","4","5","6","7","8","9">>[d + 1]

\* int(s) / float(s) succeed: an optional "-" followed by one or more digits.
IsNumeral(s) ==
    LET body == IF Len(s) > 0 /\ s[1] = "-" THEN Tail(s) ELSE s
    IN  Len(body) > 0 /\ \A i \in 1..Len(body) : body[i] \in Digits

RECURSIVE DigitsToNat(_)
DigitsToNat(s) ==
    IF s = <<>> THEN 0
    ELSE 10 * DigitsToNat(SubSeq(s, 1, Len(s) - 1)) + DigitVal(s[Len(s)])

\* int(s) for a numeral s
StrToInt(s) == IF s[1] = "-" THEN 0 - DigitsToNat(Tail(s)) ELSE DigitsToNat(s)

RECURSIVE NatToStr(_)
NatToStr(n) ==
    IF n < 10 THEN <<DigitChar(n)>>
    ELSE NatToStr(n \div 10) \o <<DigitChar(n % 10)>>

\* str(n) for an int n
IntToStr(n) == IF n < 0 THEN <<"-">> \o NatToStr(0 - n) ELSE NatToStr(n)

-----------------------------------------------------------------------------
(* buffer.py *)

\* Buffer.current: the element at the (1-based) index, None past the end
current(contents, index) ==
    IF index > Len(contents) THEN None ELSE contents[index]

AtEnd(contents, index) == index > Len(contents)

-----------------------------------------------------------------------------
(* logo_parser.py *)

LOGO_OPERATORS == {"+", "-", "*", "/", "=", "<", ">", "(", ")"}
LOGO_DELIMITERS == {"[", "]", "\n", " "} \cup LOGO_OPERATORS

Whitespace == {" ", "\n"}

\* str.strip()
RECURSIVE lstrip(_)
lstrip(s) == IF s # <<>> /\ s[1] \in Whitespace THEN lstrip(Tail(s)) ELSE s

RECURSIVE rstrip(_)
rstrip(s) ==
    IF s # <<>> /\ s[Len(s)] \in Whitespace
    THEN rstrip(SubSeq(s, 1, Len(s) - 1)) ELSE s

strip(s) == rstrip(lstrip(s))

\* parse_symbol: index just past the symbol that starts at chars[i]
RECURSIVE parse_symbol_end(_, _)
parse_symbol_end(chars, i) ==
    IF i <= Len(chars) /\ chars[i] \notin LOGO_DELIMITERS
    THEN parse_symbol_end(chars, i + 1) ELSE i

\* parse_token: the tokens with the token that starts at chars[i] appended,
\* and the index just past it
parse_token(chars, i, tokens) ==
    IF /\ chars[i] \in LOGO_OPERATORS
       /\ (chars[i] # "-" \/ ~(i = 1 \/ chars[i - 1] = " "))
    THEN [tokens |-> Append(tokens, W(<<chars[i]>>)), idx |-> i + 1, err |-> ""]
    ELSE [tokens |-> Append(tokens,
                            W(SubSeq(chars, i,
                                     parse_symbol_end(chars, i + 1) - 1))),
          idx |-> parse_symbol_end(chars, i + 1), err |-> ""]

RECURSIVE parse_loop(_, _, _)

\* tokens.extend in place of tokens.append: the tokens of the nested call
\* are spliced into the enclosing list
parse_sub_spliced(chars, b, depth, sub) ==
    IF sub.err # "" THEN sub
    ELSE parse_loop(chars, [sub EXCEPT !.tokens = b.tokens \o @], depth)

\* tokens.append(parse_line(line, chars, depth + 1)), the nested call having
\* returned sub
parse_sub(chars, b, depth, sub) ==
    IF sub.err # "" THEN sub
    ELSE parse_loop(chars, [sub EXCEPT !.tokens = Append(b.tokens, L(@))],
                    depth)

\* the while loop of parse_line; b holds the tokens read so far and the
\* index of the Buffer, err is "" or the SyntaxError message
parse_loop(chars, b, depth) ==
    CASE b.idx > Len(chars) ->
           [b EXCEPT !.err = IF depth # 0 THEN "Unmatched [" ELSE ""]
      [] b.idx <= Len(chars) /\ chars[b.idx] = " " ->
           parse_loop(chars, [b EXCEPT !.idx = @ + 1], depth)
      [] b.idx <= Len(chars) /\ chars[b.idx] = "[" ->
           parse_sub(chars, b, depth,
                     parse_loop(chars, [tokens |-> <<>>, idx |-> b.idx + 1,
                                        err |-> ""], depth + 1))
      [] b.idx <= Len(chars) /\ chars[b.idx] = "]" ->
           IF depth = 0 THEN [b EXCEPT !.err = "Unexpected ]"]
           ELSE [b EXCEPT !.idx = @ + 1]
      [] OTHER -> parse_loop(chars, parse_token(chars, b.idx, b.tokens), depth)

parse_line(line) ==
    parse_loop(strip(line), [tokens |-> <<>>, idx |-> 1, err |-> ""], 0)

-----------------------------------------------------------------------------
(* Results of evaluation steps *)

NoErr == [kind |-> "", msg |-> "", a |-> <<>>, d |-> 0]

\* ok: the step returned; otherwise it raised err
Ok(st, val, idx) ==
    [ok |-> TRUE, st |-> st, val |-> val, err |-> NoErr, idx |-> idx]

\* raise kind(msg); a holds the values formatted into the message and d the
\* number of user-procedure applications active at the raise
Raise(st, kind, msg, a, idx) ==
    [ok |-> FALSE, st |-> st, val |-> None,
     err |-> [kind |-> kind, msg |-> msg, a |-> a, d |-> Len(st.inv)],
     idx |-> idx]

\* error(message): raise LogoError(message)
error(st, msg, a, idx) == Raise(st, "LogoError", msg, a, idx)

\* history of events of the line being interpreted
Ev(e, id, n, v) ==
    [e |-> e, id |-> id, n |-> n, v |-> v, ok |-> TRUE, fr |-> <<>>,
     af |-> <<>>, fi |-> 0, cf |-> {}]

Log(st, ev) == [st EXCEPT !.log = Append(@, ev)]

\* id of the innermost active user-procedure application, 0 at top level
CurId(st) == IF st.inv = <<>> THEN 0 ELSE st.inv[Len(st.inv)].id

CurFrame(st) == IF st.inv = <<>> THEN 1 ELSE st.inv[Len(st.inv)].fi

-----------------------------------------------------------------------------
(* Environment (logo.py) *)

EmptyFrame == [x \in {} |-> None]

\* dict assignment d[k] = v
Put(f, k, v) == [x \in DOMAIN f \cup {k} |-> IF x = k THEN v ELSE f[x]]

push_frame(fs, frame) == Append(fs, frame)

pop_frame(fs) == SubSeq(fs, 1, Len(fs) - 1)

\* a search that runs from the global frame upwards: the outermost binding
\* among frames 1..i wins
lookup_global_first(fs, symbol, i) ==
    IF \A j \in 1..i : symbol \notin DOMAIN fs[j]
    THEN [ok |-> FALSE, val |-> None, msg |-> "has no value"]
    ELSE [ok |-> TRUE,
          val |-> fs[CHOOSE j \in 1..i :
                        /\ symbol \in DOMAIN fs[j]
                        /\ \A k \in 1..(j - 1) : symbol \notin DOMAIN fs[k]][symbol],
          msg |-> ""]

\* the for loop of lookup_variable, from index i down to 1, and its else
\* clause error("{0} has no value")
RECURSIVE lookup_from(_, _, _)
lookup_from(fs, symbol, i) ==
    IF i < 1 THEN [ok |-> FALSE, val |-> None, msg |-> "has no value"]
    ELSE IF symbol \in DOMAIN fs[i]
    THEN [ok |-> TRUE, val |-> fs[i][symbol], msg |-> ""]
    ELSE lookup_from(fs, symbol, i - 1)

\* a lookup that sees only the innermost frame and the global frame
lookup_own_and_global(fs, symbol) ==
    IF symbol \in DOMAIN fs[Len(fs)]
    THEN [ok |-> TRUE, val |-> fs[Len(fs)][symbol], msg |-> ""]
    ELSE lookup_from(fs, symbol, 1)

lookup_variable(fs, symbol) == lookup_from(fs, symbol, Len(fs))

set_variable_value(fs, symbol, val) ==
    IF symbol \in DOMAIN fs[Len(fs)]
    THEN [fs EXCEPT ![Len(fs)] = Put(@, symbol, val)]
    ELSE [fs EXCEPT ![1] = Put(@, symbol, val)]

-----------------------------------------------------------------------------
(* Token classification (logo.py) *)

isprimitive(token) ==
    token.k = "w" /\ (token.v \in {s_True, s_False} \/ IsNumeral(token.v))

isvariable(exp) == exp.k = "w" /\ Len(exp.v) > 0 /\ exp.v[1] = ":"

isdefinition(exp) == IsWord(exp, s_to)

\* isquoted for a list or a str (it raises AttributeError for anything else)
isquoted(exp) == exp.k = "l" \/ (exp.k = "w" /\ Len(exp.v) > 0 /\ exp.v[1] = "\"")

text_of_quotation(exp) ==
    IF exp.k = "w" THEN W(IF exp.v = <<>> THEN <<>> ELSE Tail(exp.v)) ELSE exp

INFIX_SYMBOLS == {"+", "-", "*", "/", "=", "<", ">"}

\* a grouping with "*" and "/" at the level of "+" and "-"
INFIX_GROUPS_flat(operator) ==
    IF operator \in {"<", ">", "="} THEN 0 ELSE 1

\* index into INFIX_GROUPS of the group that holds operator
INFIX_GROUPS(operator) ==
    IF operator \in {"<", ">", "="} THEN 0
    ELSE IF operator \in {"+", "-"} THEN 1 ELSE 2

\* not isinstance(line.current, list) and line.current in INFIX_SYMBOLS
IsInfix(tok) == tok.k = "w" /\ Len(tok.v) = 1 /\ tok.v[1] \in INFIX_SYMBOLS

-----------------------------------------------------------------------------
(* logo_type *)

\* str(x) as print(x, end='') writes it for a value that is not a list
Str(x) ==
    IF x.k = "w" THEN x.v
    ELSE IF x.k = "none" THEN <<"None">> ELSE <<"('OUTPUT', _)">>

RECURSIVE logo_type(_, _), type_loop(_, _, _, _, _)

\* the for loop of logo_type and the code after it: printed is what has been
\* written so far, print_str the pending string
type_loop(x, i, print_str, printed, top_level) ==
    IF i > Len(x)
    THEN LET ps == IF top_level THEN print_str
                   ELSE IF print_str = <<" ">> THEN <<"]">>
                   ELSE print_str \o <<"]">>
         IN  IF ps # <<" ">> THEN printed \o ps ELSE printed
    ELSE IF x[i].k = "l"
    THEN type_loop(x, i + 1, <<" ">>,
                   printed \o print_str \o logo_type(x[i], FALSE), top_level)
    ELSE IF x[Len(x)] = x[i]
    THEN type_loop(x, i + 1, print_str \o Str(x[i]), printed, top_level)
    ELSE type_loop(x, i + 1, print_str \o Str(x[i]) \o <<" ">>, printed,
                   top_level)

\* the characters logo_type(x, top_level) writes to standard output
logo_type(x, top_level) ==
    IF x.k # "l" THEN Str(x)
    ELSE type_loop(x.v, 1, IF top_level THEN <<>> ELSE <<"[">>, <<>>,
                   top_level)

-----------------------------------------------------------------------------
(* Procedures (load_primitives, logo_primitives.load) *)

s_print == <<"p","r","i","n","t">>
s_show == <<"s","h","o","w">>
s_type == <<"t","y","p","e">>
s_make == <<"m","a","k","e">>
s_if == <<"i","f">>
s_ifelse == <<"i","f","e","l","s","e">>
s_repeat == <<"r","e","p","e","a","t">>
s_run == <<"r","u","n">>
s_output == <<"o","u","t","p","u","t">>
s_stop == <<"s","t","o","p">>
s_sum == <<"s","u","m">>
s_difference == <<"d","i","f","f","e","r","e","n","c","e">>
s_product == <<"p","r","o","d","u","c","t">>
s_equalp == <<"e","q","u","a","l","p">>
s_lessp == <<"l","e","s","s","p">>
s_greaterp == <<"g","r","e","a","t","e","r","p">>

\* the modelled primitive registered under a name, "" if there is none
PrimId(token) ==
    IF token.k # "w" THEN ""
    ELSE CASE token.v = s_print -> "print"
           [] token.v = s_show -> "show"
           [] token.v = s_type -> "type"
           [] token.v = s_make -> "make"
           [] token.v = s_if -> "if"
           [] token.v = s_ifelse -> "ifelse"
           [] token.v = s_repeat -> "repeat"
           [] token.v = s_run -> "run"
           [] token.v = s_output -> "output"
           [] token.v = s_stop -> "stop"
           [] token.v = s_sum -> "sum"
           [] token.v = s_difference -> "difference"
           [] token.v = s_product -> "product"
           [] token.v = s_equalp -> "equalp"
           [] token.v = s_lessp -> "lessp"
           [] token.v = s_greaterp -> "greaterp"
           [] OTHER -> ""

\* arg_count of each modelled primitive
PrimArity(id) ==
    CASE id \in {"stop"} -> 0
      [] id \in {"print", "show", "type", "output", "run"} -> 1
      [] id \in {"ifelse"} -> 3
      [] OTHER -> 2

\* Procedure(name, arg_count, body, isprimitive, needs_env, formal_params)
Primitive(id) ==
    [isprimitive |-> TRUE, name |-> id, arg_count |-> PrimArity(id),
     body |-> id, formal_params |-> <<>>]

Procedure(name, arg_count, body, formal_params) ==
    [isprimitive |-> FALSE, name |-> name, arg_count |-> arg_count,
     body |-> body, formal_params |-> formal_params]

\* env.procedures.get(token, None): user definitions overwrite primitives
HasProcedure(st, token) == token \in DOMAIN st.procs \/ PrimId(token) # ""

GetProcedure(st, token) ==
    IF token \in DOMAIN st.procs THEN st.procs[token]
    ELSE Primitive(PrimId(token))

\* INFIX_SYMBOLS[operator]; "/" maps to div, which is not modelled
InfixName(operator) ==
    CASE operator = "+" -> s_sum [] operator = "-" -> s_difference
      [] operator = "*" -> s_product [] operator = "=" -> s_equalp
      [] operator = ">" -> s_greaterp [] operator = "<" -> s_lessp
      [] OTHER -> <<"d","i","v">>

-----------------------------------------------------------------------------
(* logo_primitives.py *)

\* to_num(s) succeeds
IsNum(x) == x.k = "w" /\ IsNumeral(x.v)

Bool(b) == W(IF b THEN s_True ELSE s_False)

\* numeric(f)(x, y) for op.add, op.sub, op.mul, op.lt, op.gt
numeric(id, x, y, st) ==
    IF ~IsNum(x) THEN error(st, "is not a number", <<x>>, 0)
    ELSE IF ~IsNum(y) THEN error(st, "is not a number", <<y>>, 0)
    ELSE LET a == StrToInt(x.v)
             b == StrToInt(y.v)
         IN  Ok(st,
                CASE id = "sum" -> W(IntToStr(a + b))
                  [] id = "difference" -> W(IntToStr(a - b))
                  [] id = "product" -> W(IntToStr(a * b))
                  [] id = "lessp" -> Bool(a < b)
                  [] id = "greaterp" -> Bool(a > b),
                0)

equal(x, y) ==
    IF x = y THEN Bool(TRUE)
    ELSE IF IsNum(x) /\ IsNum(y) THEN Bool(StrToInt(x.v) = StrToInt(y.v))
    ELSE Bool(FALSE)

\* list(exp) as Buffer(exp) computes it; None is not iterable
Iterable(exp) == exp.k # "none"

Elements(exp) ==
    IF exp.k = "l" THEN exp.v
    ELSE IF exp.k = "w" THEN [i \in 1..Len(exp.v) |-> W(<<exp.v[i]>>)]
    ELSE <<W(s_OUTPUT), exp.v>>

\* except Exception as e: error(e)
Convert(r) ==
    IF r.ok \/ r.err.kind \in {"KeyboardInterrupt", "DepthBound", "Unmodelled"}
    THEN r ELSE [r EXCEPT !.err.kind = "LogoError"]

-----------------------------------------------------------------------------
(* Evaluator (logo.py) *)

RECURSIVE eval_line(_, _, _), logo_eval(_, _, _, _), eval_noninfix(_, _, _),
          infix_loop(_, _, _, _, _), collect_args(_, _, _, _, _),
          run_body(_, _, _), repeat_loop(_, _, _), read_body(_, _)

\* logo_make(symbol, val, env); a list is not hashable
logo_make(symbol, val, st) ==
    IF symbol.k = "l"
    THEN Raise(st, "TypeError", "unhashable type", <<>>, 0)
    ELSE LET after == set_variable_value(st.frames, symbol, val)
         IN  Ok(Log([st EXCEPT !.frames = after],
                    [Ev("set", CurId(st), symbol, val)
                       EXCEPT !.fr = st.frames, !.af = after]),
                None, 0)

\* logo_if and logo_ifelse once val has been evaluated, with result c
if_branch(id, args, c) ==
    IF c.ok
    THEN
    CASE IsWord(c.val, s_True) ->
           IF Iterable(args[2]) THEN eval_line(Elements(args[2]), 1, c.st)
           ELSE Raise(c.st, "TypeError", "object is not iterable", <<>>, 0)
      [] IsWord(c.val, s_False) ->
           IF id = "if" THEN Ok(c.st, None, 0)
           ELSE IF Iterable(args[3])
           THEN eval_line(Elements(args[3]), 1, c.st)
           ELSE Raise(c.st, "TypeError", "object is not iterable", <<>>, 0)
      [] OTHER ->
           error(c.st, "First argument is not True or False", <<c.val>>, 0)
    ELSE c

\* logo_if (id = "if") and logo_ifelse: val is args[1], the branches follow
logo_if(id, args, st) ==
    if_branch(id, args,
              eval_line(IF args[1].k = "l" THEN args[1].v ELSE <<args[1]>>,
                        1, st))

\* proc.body(*args) for a primitive; env is st where needs_env is set
apply_primitive(id, args, st) ==
    CASE id = "print" ->
           Ok([st EXCEPT !.out = @ \o logo_type(args[1], TRUE) \o <<"\n">>],
              None, 0)
      [] id = "show" ->
           Ok([st EXCEPT !.out =
                   IF args[1].k = "l"
                   THEN @ \o <<"[">> \o logo_type(args[1], TRUE)
                          \o <<"]", "\n">>
                   ELSE @ \o logo_type(args[1], TRUE) \o <<"\n">>],
              None, 0)
      [] id = "type" ->
           Ok([st EXCEPT !.out = @ \o logo_type(args[1], TRUE)], None, 0)
      [] id = "make" -> logo_make(args[1], args[2], st)
      [] id \in {"if", "ifelse"} -> logo_if(id, args, st)
      [] id = "repeat" ->
           \* int(n) raises for anything but a numeral
           IF ~IsNum(args[1])
           THEN Raise(st, "ValueError", "invalid literal for int()", <<>>, 0)
           ELSE repeat_loop(StrToInt(args[1].v), args[2], st)
      [] id = "run" ->
           \* logo_run
           eval_line(IF args[1].k = "l" THEN args[1].v ELSE <<args[1]>>, 1, st)
      [] id = "output" ->
           Ok(Log(st, Ev("output", CurId(st), <<>>, args[1])),
              OUTPUT(args[1]), 0)
      [] id = "stop" ->
           Ok(Log(st, Ev("output", CurId(st), <<>>, None)), OUTPUT(None), 0)
      [] id = "equalp" -> Ok(st, equal(args[1], args[2]), 0)
      [] OTHER -> numeric(id, args[1], args[2], st)

\* repeat: what follows one iteration, whose result r is discarded
repeat_next(n, exp, r) ==
    IF r.ok THEN repeat_loop(n - 1, exp, r.st) ELSE r

\* repeat: the remaining n iterations of the for loop
repeat_loop(n, exp, st) ==
    CASE n <= 0 -> Ok(st, None, 0)
      [] n > 0 /\ ~Iterable(exp) ->
           Raise(st, "TypeError", "object is not iterable", <<>>, 0)
      [] OTHER -> repeat_next(n, exp, eval_line(Elements(exp), 1, st))

\* history: the innermost application returns v
Ret(st, v) ==
    [Log(st, Ev("ret", CurId(st), <<>>, v))
       EXCEPT !.inv = SubSeq(@, 1, Len(@) - 1)]

\* dict(zip(formal_params, args))
ArgsDict(formal_params, args) ==
    LET n == IF Len(args) < Len(formal_params) THEN Len(args)
             ELSE Len(formal_params)
    IN  [x \in {formal_params[i] : i \in 1..n} |->
           args[CHOOSE i \in 1..n : /\ formal_params[i] = x
                                   /\ \A j \in 1..n :
                                        formal_params[j] = x => j <= i]]

\* the body of the for loop of logo_apply after eval_line gave r for line i
line_result(proc, i, r) ==
    IF r.ok
    THEN
    CASE r.val.k = "none" -> run_body(proc, i + 1, r.st)
      [] OTHER ->
           LET result == r.val
               valued == Log(r.st, Ev("value", CurId(r.st), proc.name, r.val))
               popped == Log([valued EXCEPT !.frames = pop_frame(@)],
                             [Ev("pop", CurId(r.st), proc.name, None)
                                EXCEPT !.fr = r.st.frames])
           IN  IF result.k = "out"
               THEN Ok(Ret(popped, result.v), result.v, 0)
               ELSE IF result.v = <<>>
               THEN Raise(valued, "IndexError", "index out of range", <<>>, 0)
               ELSE IF result.k = "l" /\ IsWord(result.v[1], s_OUTPUT)
               THEN IF Len(result.v) < 2
                    THEN Raise(popped, "IndexError", "index out of range",
                               <<>>, 0)
                    ELSE Ok(Ret(popped, result.v[2]), result.v[2], 0)
               ELSE error(popped, "You do not say what to do with",
                          <<result>>, 0)
    ELSE r

\* the for loop of logo_apply over proc.body, from line i on
run_body(proc, i, st) ==
    IF i > Len(proc.body) THEN Ok(Ret(st, None), None, 0)
    ELSE line_result(proc, i,
             eval_line(proc.body[i], 1,
                       Log(st, Ev("line", CurId(st), proc.name, i))))

\* an application that binds no frame: args[-1].push_frame(args_dict) is
\* left out
apply_user_unpushed(proc, args, st) ==
    IF Len(st.inv) >= MaxCallDepth
    THEN Raise(st, "DepthBound", "call depth bound", <<>>, 0)
    ELSE run_body(proc, 1,
             Log([st EXCEPT
                    !.ninv = st.ninv + 1,
                    !.inv = Append(@, [id |-> st.ninv + 1,
                                       fi |-> Len(st.frames)])],
                 Ev("call", st.ninv + 1, proc.name, None)))

\* the else branch of logo_apply: a user-defined procedure
apply_user(proc, args, st) ==
    CASE Len(st.inv) >= MaxCallDepth ->
           Raise(st, "DepthBound", "call depth bound", <<>>, 0)
      [] /\ Len(st.inv) < MaxCallDepth
         /\ \E i \in 1..Len(proc.formal_params) :
              i <= Len(args) /\ proc.formal_params[i].k = "l" ->
           Raise(st, "TypeError", "unhashable type", <<>>, 0)
      [] OTHER ->
           run_body(proc, 1,
               Log([st EXCEPT
                      !.frames = push_frame(@, ArgsDict(proc.formal_params,
                                                        args)),
                      !.ninv = st.ninv + 1,
                      !.inv = Append(@, [id |-> st.ninv + 1,
                                         fi |-> Len(st.frames) + 1])],
                   [Ev("call", st.ninv + 1, proc.name, None)
                      EXCEPT !.fr = st.frames]))

\* logo_apply(proc, args) with the environment args[-1] held in st
logo_apply(proc, args, st) ==
    IF proc.isprimitive THEN Convert(apply_primitive(proc.body, args, st))
    ELSE apply_user(proc, args, st)

\* args.insert(0, ...) in place of args.append: the arguments end up in
\* reverse order
collect_next_reversed(n, line, args, r) ==
    IF r.ok THEN collect_args(n, line, r.idx, r.st, <<r.val>> \o args)
    ELSE r

\* collect_args: what follows the evaluation of one argument, with result r
collect_next(n, line, args, r) ==
    IF r.ok THEN collect_args(n, line, r.idx, r.st, Append(args, r.val))
    ELSE r

collect_args(n, line, idx, st, args) ==
    CASE ~AtEnd(line, idx) /\ Len(args) < n ->
           collect_next(n, line, args, logo_eval(line, idx, st, FALSE))
      [] AtEnd(line, idx) /\ Len(args) < n ->
           Raise(st, "LogoError", "Found only N of M args",
                 <<Len(args), n>>, idx)
      [] OTHER -> [Ok(st, None, idx) EXCEPT !.val = [k |-> "args", v |-> args]]

\* apply_procedure once collect_args returned c
apply_collected(proc, c) ==
    IF c.ok THEN [logo_apply(proc, c.val.v, c.st) EXCEPT !.idx = c.idx]
    ELSE c

apply_procedure(proc, line, idx, st) ==
    apply_collected(proc, collect_args(proc.arg_count, line, idx, st, <<>>))

\* a loop that appends the line before it tests for "end": the body ends
\* with the end line
read_body_with_end(st, body) ==
    IF st.src = <<>> THEN Raise(st, "EOFError", "EOF", <<>>, 0)
    ELSE LET line == parse_line(Head(st.src))
             st1 == [st EXCEPT !.src = Tail(@)]
         IN  IF line.err # ""
             THEN Raise(st1, "SyntaxError", line.err, <<>>, 0)
             ELSE IF Len(line.tokens) = 1 /\ IsWord(line.tokens[1], s_end)
             THEN [Ok(st1, None, 0)
                     EXCEPT !.val = [k |-> "body",
                                     v |-> Append(body, line.tokens)]]
             ELSE read_body(st1, Append(body, line.tokens))

\* the while True loop of eval_definition: read lines up to "end"
read_body(st, body) ==
    IF st.src = <<>> THEN Raise(st, "EOFError", "EOF", <<>>, 0)
    ELSE LET line == parse_line(Head(st.src))
             st1 == [st EXCEPT !.src = Tail(@)]
         IN  IF line.err # ""
             THEN Raise(st1, "SyntaxError", line.err, <<>>, 0)
             ELSE IF Len(line.tokens) = 1 /\ IsWord(line.tokens[1], s_end)
             THEN [Ok(st1, None, 0) EXCEPT !.val = [k |-> "body", v |-> body]]
             ELSE read_body(st1, Append(body, line.tokens))

\* eval_definition(line, env), line positioned after "to"
eval_definition(line, idx, st) ==
    IF AtEnd(line, idx)
    THEN Raise(st, "IndexError", "Nothing left to pop", <<>>, idx)
    ELSE
    LET procedure_name == line[idx]
        args == [i \in 1..(Len(line) - idx) |->
                   text_of_quotation(line[idx + i])]
        b == read_body(st, <<>>)
        proc == Procedure(procedure_name, Len(args), b.val.v, args)
    IN  IF ~b.ok THEN [b EXCEPT !.idx = Len(line) + 1]
        ELSE IF procedure_name.k = "l"
        THEN Raise(b.st, "TypeError", "unhashable type", <<>>, Len(line) + 1)
        ELSE Ok(Log([b.st EXCEPT !.procs = Put(@, procedure_name, proc)],
                    Ev("def", CurId(st), procedure_name, None)),
                None, Len(line) + 1)

\* lookup_variable(variable_name(token)) in eval_noninfix, with its history
eval_variable(token, idx, st) ==
    IF Len(token.v) <= 1
    THEN Raise(st, "ValueError", "Illegal variable expression", <<token>>,
               idx + 1)
    ELSE LET symbol == W(Tail(token.v))
             found == lookup_variable(st.frames, symbol)
             st1 == Log(st, [Ev("lookup", CurId(st), symbol, found.val)
                               EXCEPT !.ok = found.ok,
                                      !.fr = st.frames,
                                      !.fi = CurFrame(st),
                                      !.cf = {st.inv[j].fi :
                                                j \in 1..(Len(st.inv) - 1)}])
         IN  IF found.ok THEN Ok(st1, found.val, idx + 1)
             ELSE error(st1, found.msg, <<symbol>>, idx + 1)

\* the branch of eval_noninfix taken for the token line.pop(), "pop" where
\* the line has no token left
token_branch(line, idx, st) ==
    IF AtEnd(line, idx) THEN "pop"
    ELSE IF isprimitive(line[idx]) THEN "primitive"
    ELSE IF isvariable(line[idx]) THEN "variable"
    ELSE IF isdefinition(line[idx]) THEN "definition"
    ELSE IF line[idx].k \in {"none", "out"} THEN "startswith"
    ELSE IF isquoted(line[idx]) THEN "quoted"
    ELSE IF IsWord(line[idx], <<"(">>) THEN "paren"
    ELSE IF ~HasProcedure(st, line[idx]) THEN "unknown"
    ELSE "procedure"

\* the "(" branch of eval_noninfix once logo_eval returned r
close_paren(line, r) ==
    IF ~r.ok THEN r
    ELSE IF ~IsWord(current(line, r.idx), <<")">>)
    THEN Raise(r.st, "LogoError", "Expected )", <<>>, r.idx)
    ELSE Ok(r.st, r.val, r.idx + 1)

eval_noninfix(line, idx, st) ==
    CASE token_branch(line, idx, st) = "pop" ->
           Raise(st, "IndexError", "Nothing left to pop", <<>>, idx)
      [] token_branch(line, idx, st) = "primitive" ->
           Ok(st, line[idx], idx + 1)
      [] token_branch(line, idx, st) = "variable" ->
           eval_variable(line[idx], idx, st)
      [] token_branch(line, idx, st) = "definition" ->
           eval_definition(line, idx + 1, st)
      [] token_branch(line, idx, st) = "startswith" ->
           Raise(st, "AttributeError", "no attribute startswith", <<>>,
                 idx + 1)
      [] token_branch(line, idx, st) = "quoted" ->
           Ok(st, text_of_quotation(line[idx]), idx + 1)
      [] token_branch(line, idx, st) = "paren" ->
           close_paren(line, logo_eval(line, idx + 1, st, FALSE))
      [] token_branch(line, idx, st) = "unknown" ->
           error(st, "I do not know how to", <<line[idx]>>, idx + 1)
      [] token_branch(line, idx, st) = "procedure" ->
           apply_procedure(GetProcedure(st, line[idx]), line, idx + 1, st)

\* apply_procedure(INFIX_SYMBOLS[operator], [result, right], env)
infix_apply(operator, result, right, st) ==
    IF W(InfixName(operator)) \in DOMAIN st.procs
    THEN Raise(right.st, "AttributeError", "no attribute push_frame",
               <<>>, right.idx)
    ELSE IF operator = "/"
    THEN Raise(right.st, "Unmodelled", "div", <<>>, right.idx)
    ELSE logo_apply(Primitive(PrimId(W(InfixName(operator)))),
                    <<result, right.val>>, right.st)

\* the while loop of logo_eval once the operator has been applied
infix_applied(line, pre_operator, right, applied) ==
    IF applied.ok
    THEN infix_loop(line, right.idx, applied.st, applied.val, pre_operator)
    ELSE [applied EXCEPT !.idx = right.idx]

\* the while loop of logo_eval once the right operand has been evaluated
infix_right(line, idx, st, result, pre_operator, right) ==
    IF right.ok
    THEN infix_applied(line, pre_operator, right,
                       infix_apply(line[idx].v[1], result, right, st))
    ELSE right

\* the while loop of logo_eval
infix_loop(line, idx, st, result, pre_operator) ==
    CASE AtEnd(line, idx) -> Ok(st, result, idx)
      [] ~AtEnd(line, idx) /\ ~IsInfix(line[idx]) -> Ok(st, result, idx)
      [] OTHER ->
           LET group == INFIX_GROUPS(line[idx].v[1])
           IN  IF group # 2 /\ pre_operator THEN Ok(st, result, idx)
               ELSE infix_right(line, idx, st, result, pre_operator,
                        IF group = 2 THEN eval_noninfix(line, idx + 1, st)
                        ELSE logo_eval(line, idx + 1, st, group # 0))

\* logo_eval once eval_noninfix returned r
eval_infix(line, pre_operator, r) ==
    IF r.ok THEN infix_loop(line, r.idx, r.st, r.val, pre_operator) ELSE r

logo_eval(line, idx, st, pre_operator) ==
    CASE AtEnd(line, idx) -> error(st, "Ran out of input", <<>>, idx)
      [] ~AtEnd(line, idx) /\ IsWord(current(line, idx), <<")">>) ->
           error(st, "Unexpected )", <<>>, idx)
      [] OTHER -> eval_infix(line, pre_operator, eval_noninfix(line, idx, st))

\* the while loop of eval_line once logo_eval returned r
line_next(line, r) ==
    IF r.ok
    THEN IF r.val.k = "none" THEN eval_line(line, r.idx, r.st) ELSE r
    ELSE r

\* eval_line(line, env): line is the Buffer's contents, idx its index
eval_line(line, idx, st) ==
    IF AtEnd(line, idx) THEN Ok(st, None, idx)
    ELSE line_next(line, logo_eval(line, idx, st, FALSE))

-----------------------------------------------------------------------------
(* Interpreter (logo.py) *)

\* interpret_line(line, env)
interpret_line(line, st) ==
    LET tokens == parse_line(line)
        r == eval_line(tokens.tokens, 1, st)
    IN  IF tokens.err # "" THEN Raise(st, "SyntaxError", tokens.err, <<>>, 0)
        ELSE IF ~r.ok THEN r
        ELSE IF r.val.k # "none"
        THEN error(r.st, "You do not say what to do with", <<r.val>>, r.idx)
        ELSE r

\* a loop whose first except clause names LogoError alone
Handler_LogoErrorOnly(kind) ==
    IF kind = "" THEN "continue"
    ELSE IF kind = "LogoError" THEN "print"
    ELSE IF kind \in {"KeyboardInterrupt", "EOFError"} THEN "goodbye"
    ELSE "propagate"

\* the except clauses of read_eval_loop for an exception of this kind
Handler(kind) ==
    IF kind = "" THEN "continue"
    ELSE IF kind \in {"LogoError", "SyntaxError"} THEN "print"
    ELSE IF kind \in {"KeyboardInterrupt", "EOFError"} THEN "goodbye"
    ELSE "propagate"

UPPER == <<"A","B","C","D","E","F","G","H","I","J","K","L","M",
           "N","O","P","Q","R","S","T","U","V","W","X","Y","Z">>
LOWER == <<"a","b","c","d","e","f","g","h","i","j","k","l","m",
           "n","o","p","q","r","s","t","u","v","w","x","y","z">>

\* str.lower()
lower(s) ==
    [i \in 1..Len(s) |->
       IF \E j \in 1..26 : UPPER[j] = s[i]
       THEN LOWER[CHOOSE j \in 1..26 : UPPER[j] = s[i]] ELSE s[i]]

QuitWords == {<<"q","u","i","t">>, <<"e","x","i","t">>, <<"b","y","e">>}

-----------------------------------------------------------------------------
(* The line source: scripts a session is fed, one after the other *)

Scripts ==
    {
    \* a procedure whose body lines all yield none: to f / print 1 / end / f / f
     << <<"t","o"," ","f">>,
       <<"p","r","i","n","t"," ","1">>,
       <<"e","n","d">>,
       <<"f">>,
       <<"f">> >>,
    \* output and stop: to dbl :n / output sum :n :n / end / print dbl 5 / to s / stop / print 2 / end / s
     << <<"t","o"," ","d","b","l"," ",":","n">>,
       <<"o","u","t","p","u","t"," ","s","u","m"," ",":","n"," ",":","n">>,
       <<"e","n","d">>,
       <<"p","r","i","n","t"," ","d","b","l"," ","5">>,
       <<"t","o"," ","s">>,
       <<"s","t","o","p">>,
       <<"p","r","i","n","t"," ","2">>,
       <<"e","n","d">>,
       <<"s">> >>,
    \* an unbound variable inside a body: to h :x / print :nope / end / h 1 / print 2
     << <<"t","o"," ","h"," ",":","x">>,
       <<"p","r","i","n","t"," ",":","n","o","p","e">>,
       <<"e","n","d">>,
       <<"h"," ","1">>,
       <<"p","r","i","n","t"," ","2">> >>,
    \* output inside repeat: to r / repeat 2 [output 1] / print "after / end / print r
     << <<"t","o"," ","r">>,
       <<"r","e","p","e","a","t"," ","2"," ","[","o","u","t","p","u","t"," ","1","]">>,
       <<"p","r","i","n","t"," ","\"","a","f","t","e","r">>,
       <<"e","n","d">>,
       <<"p","r","i","n","t"," ","r">> >>,
    \* output inside if: to i / if "True [output 1] / print "after / end / print i
     << <<"t","o"," ","i">>,
       <<"i","f"," ","\"","T","r","u","e"," ","[","o","u","t","p","u","t"," ","1","]">>,
       <<"p","r","i","n","t"," ","\"","a","f","t","e","r">>,
       <<"e","n","d">>,
       <<"p","r","i","n","t"," ","i">> >>,
    \* output inside ifelse and run: to j :n / ifelse :n < 2 [output 1] [run [output 2]] / print "after / end / print j 1 / print j 3
     << <<"t","o"," ","j"," ",":","n">>,
       <<"i","f","e","l","s","e"," ",":","n"," ","<"," ","2"," ","[","o","u","t","p","u","t"," ","1","]"," ","[","r","u","n"," ","[","o","u","t","p","u","t"," ","2","]","]">>,
       <<"p","r","i","n","t"," ","\"","a","f","t","e","r">>,
       <<"e","n","d">>,
       <<"p","r","i","n","t"," ","j"," ","1">>,
       <<"p","r","i","n","t"," ","j"," ","3">> >>,
    \* a callee reads its caller's parameter: to q / print :v / end / to p :v / q / output 1 / end / print p 3 / q
     << <<"t","o"," ","q">>,
       <<"p","r","i","n","t"," ",":","v">>,
       <<"e","n","d">>,
       <<"t","o"," ","p"," ",":","v">>,
       <<"q">>,
       <<"o","u","t","p","u","t"," ","1">>,
       <<"e","n","d">>,
       <<"p","r","i","n","t"," ","p"," ","3">>,
       <<"q">> >>,
    \* make twice: make "x 1 / make "x 2 / print :x
     << <<"m","a","k","e"," ","\"","x"," ","1">>,
       <<"m","a","k","e"," ","\"","x"," ","2">>,
       <<"p","r","i","n","t"," ",":","x">> >>,
    \* make after nested calls: to b :y / print :y / end / to a :x / b 1 / end / a 5 / make "x 1 / make "x 2 / print :x
     << <<"t","o"," ","b"," ",":","y">>,
       <<"p","r","i","n","t"," ",":","y">>,
       <<"e","n","d">>,
       <<"t","o"," ","a"," ",":","x">>,
       <<"b"," ","1">>,
       <<"e","n","d">>,
       <<"a"," ","5">>,
       <<"m","a","k","e"," ","\"","x"," ","1">>,
       <<"m","a","k","e"," ","\"","x"," ","2">>,
       <<"p","r","i","n","t"," ",":","x">> >>,
    \* make inside a body: to m :x / make "x 7 / make "z 8 / output :x / end / print m 1 / print :z
     << <<"t","o"," ","m"," ",":","x">>,
       <<"m","a","k","e"," ","\"","x"," ","7">>,
       <<"m","a","k","e"," ","\"","z"," ","8">>,
       <<"o","u","t","p","u","t"," ",":","x">>,
       <<"e","n","d">>,
       <<"p","r","i","n","t"," ","m"," ","1">>,
       <<"p","r","i","n","t"," ",":","z">> >>,
    \* a lone colon: : / print 1
     << <<":">>,
       <<"p","r","i","n","t"," ","1">> >>,
    \* to without a name: to / print 1
     << <<"t","o">>,
       <<"p","r","i","n","t"," ","1">> >>,
    \* a dangling product: print 3 * / print 1
     << <<"p","r","i","n","t"," ","3"," ","*">>,
       <<"p","r","i","n","t"," ","1">> >>,
    \* a body line that yields an empty word: to e / " / end / e / print 1
     << <<"t","o"," ","e">>,
       <<"\"">>,
       <<"e","n","d">>,
       <<"e">>,
       <<"p","r","i","n","t"," ","1">> >>,
    \* a body line that yields an empty sentence: to d / [] / end / d
     << <<"t","o"," ","d">>,
       <<"[","]">>,
       <<"e","n","d">>,
       <<"d">> >>,
    \* a body line that yields a sentence headed by OUTPUT: to o / [OUTPUT 3] / end / print o
     << <<"t","o"," ","o">>,
       <<"[","O","U","T","P","U","T"," ","3","]">>,
       <<"e","n","d">>,
       <<"p","r","i","n","t"," ","o">> >>,
    \* a body line that yields a value: to w / sum 1 2 / end / w / print 1
     << <<"t","o"," ","w">>,
       <<"s","u","m"," ","1"," ","2">>,
       <<"e","n","d">>,
       <<"w">>,
       <<"p","r","i","n","t"," ","1">> >>,
    \* syntax errors: make "k 1 / print 1] / print [ / print :k
     << <<"m","a","k","e"," ","\"","k"," ","1">>,
       <<"p","r","i","n","t"," ","1","]">>,
       <<"p","r","i","n","t"," ","[">>,
       <<"p","r","i","n","t"," ",":","k">> >>,
    \* bye: bye / print 1
     << <<"b","y","e">>,
       <<"p","r","i","n","t"," ","1">> >>,
    \* QUIT: print 1 / QUIT
     << <<"p","r","i","n","t"," ","1">>,
       <<"Q","U","I","T">> >>,
    \* Exit: Exit
     << <<"E","x","i","t">> >>,
    \* a definition cut short by the end of input: to u / print 1
     << <<"t","o"," ","u">>,
       <<"p","r","i","n","t"," ","1">> >>,
    \* a value at top level: sum 1 2 / print 1 + 2 * 3
     << <<"s","u","m"," ","1"," ","2">>,
       <<"p","r","i","n","t"," ","1"," ","+"," ","2"," ","*"," ","3">> >>,
    \* too few arguments and an unknown procedure: print sum 1 / foo / print (sum 1 2) / print (1 / )
     << <<"p","r","i","n","t"," ","s","u","m"," ","1">>,
       <<"f","o","o">>,
       <<"p","r","i","n","t"," ","(","s","u","m"," ","1"," ","2",")">>,
       <<"p","r","i","n","t"," ","(","1">>,
       <<")">> >>,
    \* a nested sentence: print [a [b c] d] / show [a a] / type 1 / 
     << <<"p","r","i","n","t"," ","[","a"," ","[","b"," ","c","]"," ","d","]">>,
       <<"s","h","o","w"," ","[","a"," ","a","]">>,
       <<"t","y","p","e"," ","1">>,
       <<>> >>,
    \* a recursive procedure: to cd :n / if :n < 1 [stop] / print :n / cd :n - 1 / end / cd 2
     << <<"t","o"," ","c","d"," ",":","n">>,
       <<"i","f"," ",":","n"," ","<"," ","1"," ","[","s","t","o","p","]">>,
       <<"p","r","i","n","t"," ",":","n">>,
       <<"c","d"," ",":","n"," ","-"," ","1">>,
       <<"e","n","d">>,
       <<"c","d"," ","2">> >>,
    \* a definition inside an instruction list, cut short: if "True [to z]
     << <<"i","f"," ","\"","T","r","u","e"," ","[","t","o"," ","z","]">> >>,
    \* a sentence as a procedure name: to [a] / end / if "maybe [print 1]
     << <<"t","o"," ","[","a","]">>,
       <<"e","n","d">>,
       <<"i","f"," ","\"","m","a","y","b","e"," ","[","p","r","i","n","t"," ","1","]">> >>,
    \* nested applications that both output: to g / output 1 / end / to k / output g / end / print k
     << <<"t","o"," ","g">>,
       <<"o","u","t","p","u","t"," ","1">>,
       <<"e","n","d">>,
       <<"t","o"," ","k">>,
       <<"o","u","t","p","u","t"," ","g">>,
       <<"e","n","d">>,
       <<"p","r","i","n","t"," ","k">> >>,
    \* a lone quote: print " / make "e " / print :e
     << <<"p","r","i","n","t"," ","\"">>,
       <<"m","a","k","e"," ","\"","e"," ","\"">>,
       <<"p","r","i","n","t"," ",":","e">> >>
    }

-----------------------------------------------------------------------------
(* read_eval_loop *)

Init ==
    /\ frames = <<EmptyFrame>>
    /\ procs = EmptyFrame
    /\ out = <<>>
    /\ src = <<>>
    /\ pc = "running"
    /\ lastErr = NoErr
    /\ lastRead = [k |-> "none", s |-> <<>>]
    /\ preDepth = 1
    /\ log = <<>>
    /\ nitems = 0
    /\ goodbyes = 0
    /\ inp = <<>>
    /\ res = <<>>

\* print('Goodbye!'); return
Goodbye(printed) ==
    /\ out' = printed \o <<"Goodbye!", "\n">>
    /\ goodbyes' = goodbyes + 1
    /\ pc' = "returned"

\* one iteration of the while loop of read_eval_loop in which get_next_line
\* returned line and left rest in the source
Iteration(line, rest) ==
    IF lower(line) \in QuitWords
    THEN /\ Goodbye(out)
         /\ src' = rest
         /\ lastErr' = NoErr
         /\ log' = <<>>
         /\ lastRead' = [k |-> "line", s |-> line]
         /\ preDepth' = Len(frames)
         /\ UNCHANGED <<frames, procs, inp, res>>
    ELSE \E r \in {interpret_line(line,
                      [frames |-> frames, procs |-> procs, out |-> out,
                       src |-> rest, log |-> <<>>, inv |-> <<>>,
                       ninv |-> 0])} :
         /\ r.err.kind \notin {"DepthBound", "Unmodelled"}
         /\ lastRead' = [k |-> "line", s |-> line]
         /\ preDepth' = Len(frames)
         /\ UNCHANGED <<inp, res>>
         /\ frames' = r.st.frames
         /\ procs' = r.st.procs
         /\ src' = r.st.src
         /\ log' = r.st.log
         /\ lastErr' = r.err
         /\ CASE Handler(r.err.kind) = "continue" ->
                   out' = r.st.out /\ UNCHANGED <<pc, goodbyes>>
              [] Handler(r.err.kind) = "print" ->
                   /\ out' = r.st.out \o <<r.err.msg, "\n">>
                   /\ UNCHANGED <<pc, goodbyes>>
              [] Handler(r.err.kind) = "goodbye" -> Goodbye(r.st.out)
              [] Handler(r.err.kind) = "propagate" ->
                   /\ out' = r.st.out
                   /\ pc' = "crashed"
                   /\ UNCHANGED goodbyes

\* get_next_line() returns the first line of a new script
ReadScript ==
    /\ pc = "running"
    /\ src = <<>>
    /\ nitems < MaxItems
    /\ \E script \in Scripts :
         /\ Iteration(Head(script), Tail(script))
         /\ nitems' = nitems + 1

\* get_next_line() returns the next line of the source
ReadLine ==
    /\ pc = "running"
    /\ src # <<>>
    /\ Iteration(Head(src), Tail(src))
    /\ UNCHANGED nitems

\* get_next_line() raises EOFError
EndOfInput ==
    /\ pc = "running"
    /\ src = <<>>
    /\ lastRead' = [k |-> "eof", s |-> <<>>]
    /\ Goodbye(out)
    /\ lastErr' = NoErr
    /\ preDepth' = Len(frames)
    /\ log' = <<>>
    /\ UNCHANGED <<frames, procs, src, nitems, inp, res>>

\* get_next_line() raises KeyboardInterrupt
Interrupt ==
    /\ pc = "running"
    /\ lastRead' = [k |-> "interrupt", s |-> <<>>]
    /\ Goodbye(out)
    /\ lastErr' = NoErr
    /\ preDepth' = Len(frames)
    /\ log' = <<>>
    /\ UNCHANGED <<frames, procs, src, nitems, inp, res>>

Next == ReadScript \/ ReadLine \/ EndOfInput \/ Interrupt

Spec == Init /\ [][Next]_vars

-----------------------------------------------------------------------------
(* Properties of the read-eval loop, checked under Spec *)

Min(S) == CHOOSE x \in S : \A y \in S : x <= y
Max(S) == CHOOSE x \in S : \A y \in S : y <= x

\* the last line read was handed to interpret_line
Interpreted == lastRead.k = "line" /\ lower(lastRead.s) \notin QuitWords

\* C1: after a top-level line that is evaluated without error, the frame stack
\* has as many frames as before the line.
C1_FramesBalancedAfterSuccess ==
    (Interpreted /\ lastErr.kind = "") => Len(frames) = preDepth

\* C2: after a top-level line that fails with an interpreter error raised
\* while a user-procedure body is executing, the frame stack is back at its
\* depth before the line.
C2_FramesBalancedAfterError ==
    (Interpreted /\ lastErr.kind = "LogoError" /\ lastErr.d >= 1)
        => Len(frames) = preDepth

\* C3: once output X is executed in the body of a user procedure, the next
\* thing that application does is return X: it runs no further body line and
\* no further output.
C3_OutputEndsProcedure ==
    \A i \in 1..Len(log) :
        (log[i].e = "output" /\ log[i].id # 0) =>
            LET later == {j \in (i + 1)..Len(log) :
                            /\ log[j].id = log[i].id
                            /\ log[j].e \in {"line", "output", "ret"}}
            IN  /\ later # {}
                /\ log[Min(later)].e = "ret"
                /\ log[Min(later)].v = log[i].v

\* a variable reference made in a body, of a name that neither that
\* application's frame nor the global frame binds, but a caller's frame does
CallerOnly(ev) ==
    /\ ev.e = "lookup"
    /\ ev.id # 0
    /\ ev.n \notin DOMAIN ev.fr[ev.fi]
    /\ ev.n \notin DOMAIN ev.fr[1]
    /\ \E j \in ev.cf : ev.n \in DOMAIN ev.fr[j]

\* C4 (as claimed): in a body, a name bound only in a caller's frame is not
\* visible and its lookup fails.
C4_CallerFrameInvisible ==
    \A i \in 1..Len(log) : CallerOnly(log[i]) => ~log[i].ok

\* C4 (amended): in a body, a variable reference resolves against every
\* frame on the stack, innermost first; a name bound only in a caller's
\* frame is visible, and the lookup fails with "has no value" only when no
\* frame at all binds the name.
C4_DynamicScope ==
    \A i \in 1..Len(log) :
        (log[i].e = "lookup" /\ log[i].id # 0) =>
            LET ev == log[i]
                binders == {j \in 1..Len(ev.fr) : ev.n \in DOMAIN ev.fr[j]}
            IN  IF binders = {}
                THEN /\ ~ev.ok
                     /\ i = Len(log)
                     /\ lastErr.kind = "LogoError"
                     /\ lastErr.msg = "has no value"
                     /\ lastErr.a = <<ev.n>>
                ELSE ev.ok /\ ev.v = ev.fr[Max(binders)][ev.n]

C4_Witness ==
    \E i \in 1..Len(log) :
        CallerOnly(log[i]) /\ log[i].ok /\ log[i].v = W(<<"3">>)

\* C5: set_variable_value writes the innermost frame when it binds the name
\* and the global frame otherwise, leaves every other frame and binding as it
\* was, and a make at top level leaves its value visible to a lookup.
C5_MakeWritesAndShows ==
    \A i \in 1..Len(log) :
        log[i].e = "set" =>
            LET ev == log[i]
                top == Len(ev.fr)
                tgt == IF ev.n \in DOMAIN ev.fr[top] THEN top ELSE 1
            IN  /\ Len(ev.af) = top
                /\ \A j \in 1..top : j # tgt => ev.af[j] = ev.fr[j]
                /\ DOMAIN ev.af[tgt] = DOMAIN ev.fr[tgt] \cup {ev.n}
                /\ ev.af[tgt][ev.n] = ev.v
                /\ \A x \in DOMAIN ev.fr[tgt] :
                       x # ev.n => ev.af[tgt][x] = ev.fr[tgt][x]
                /\ ev.id = 0 =>
                       \E j \in 1..top :
                           /\ ev.n \in DOMAIN ev.af[j]
                           /\ ev.af[j][ev.n] = ev.v
                           /\ \A h \in (j + 1)..top : ev.n \notin DOMAIN ev.af[h]

\* the number of Goodbye! messages on standard output
Goodbyes(o) == Cardinality({i \in 1..Len(o) : o[i] = "Goodbye!"})

\* an end-of-input or interrupt signal has reached read_eval_loop: the line
\* read is a quit word, get_next_line raised, or the continuation-line
\* supplier ran out of input under a definition
ReturnCause ==
    \/ lastRead.k \in {"eof", "interrupt"}
    \/ lastRead.k = "line" /\ lower(lastRead.s) \in QuitWords
    \/ lastRead.k = "line" /\ lastErr.kind = "EOFError"

\* the step interprets a line that raises a syntax or interpreter error: the
\* message is printed, the loop goes on, and every binding and definition
\* made before is still there, changed only by what the line itself did
C9_ErrorStep ==
    (lastRead'.k = "line" /\ lastErr'.kind \in {"LogoError", "SyntaxError"}) =>
        /\ pc' = "running"
        /\ goodbyes' = goodbyes
        /\ Len(out') >= Len(out) + 2
        /\ SubSeq(out', 1, Len(out)) = out
        /\ out'[Len(out') - 1] = lastErr'.msg
        /\ out'[Len(out')] = "\n"
        /\ Len(frames') >= Len(frames)
        /\ \A j \in 1..Len(frames) : \A n \in DOMAIN frames[j] :
               /\ n \in DOMAIN frames'[j]
               /\ \/ frames'[j][n] = frames[j][n]
                  \/ \E i \in 1..Len(log') :
                         log'[i].e = "set" /\ log'[i].n = n
        /\ \A n \in DOMAIN procs :
               /\ n \in DOMAIN procs'
               /\ \/ procs'[n] = procs[n]
                  \/ \E i \in 1..Len(log') :
                         log'[i].e = "def" /\ log'[i].n = n

\* the loop has returned exactly when a return cause has occurred, and then
\* Goodbye! has been printed once, as the last thing printed
C9_ReturnState ==
    /\ (pc = "returned") <=> ReturnCause
    /\ pc = "returned" =>
           /\ goodbyes = 1
           /\ Goodbyes(out) = 1
           /\ Len(out) >= 2
           /\ out[Len(out) - 1] = "Goodbye!"
    /\ pc # "returned" => goodbyes = 0 /\ Goodbyes(out) = 0

\* C9: a line that raises a syntax error or an interpreter error has its
\* message printed and the loop reads on against the same environment; the
\* loop returns, having printed Goodbye! exactly once, when and only when a
\* quit word is read or the line source signals end of input or interrupt.
C9_LoopContinuesAndReturns == [][C9_ErrorStep]_vars /\ []C9_ReturnState

\* the loop has returned on a quit word after printing a syntax error, and
\* the binding of k made before the error is still in the global frame
C9_Witness ==
    /\ pc = "returned"
    /\ lastRead.k = "line"
    /\ lower(lastRead.s) \in QuitWords
    /\ \E i \in 1..Len(out) : out[i] = "Unexpected ]"
    /\ W(<<"k">>) \in DOMAIN frames[1]
    /\ frames[1][W(<<"k">>)] = W(<<"1">>)

\* C10: every failure that escapes the evaluation of a line is a LogoError
\* (the tokenizer's SyntaxError and the line source's EOFError apart), so no
\* evaluation failure ends the loop.
C10_OnlyInterpreterErrors ==
    /\ lastErr.kind \in {"", "LogoError", "SyntaxError", "EOFError"}
    /\ pc # "crashed"

\* the events of the last line in which a user-procedure application pushed
\* its frame (call) or popped the top frame (pop)
Pushes == {i \in 1..Len(log) : log[i].e = "call"}
Pops == {i \in 1..Len(log) : log[i].e = "pop"}

\* C12: the frame stack holds at least the global frame in every state,
\* before every push and after every pop; every pop_frame is executed by a
\* user-procedure application that executed push_frame earlier in the line
\* and has not popped since, so no pop removes the global frame.
C12_GlobalFrameNeverPopped ==
    /\ Len(frames) >= 1
    /\ preDepth >= 1
    /\ \A i \in Pushes : Len(log[i].fr) >= 1
    /\ \A i \in Pops :
         /\ Len(log[i].fr) >= 2
         /\ \E j \in Pushes : j < i /\ log[j].id = log[i].id
         /\ \A j \in Pops : j < i => log[j].id # log[i].id

\* a line in which two nested applications each popped a frame, run after an
\* earlier line had left a frame behind
C12_Witness ==
    /\ Interpreted
    /\ preDepth >= 2
    /\ \E i, j \in Pops : log[i].id # log[j].id

\* the events of the last line in which a body line of a user procedure
\* yielded a value other than none and other than the sentinel of output/stop
Yields ==
    {i \in 1..Len(log) : log[i].e = "value" /\ log[i].v.k \in {"w", "l"}}

\* C13: when a body line of a user procedure yields a word or a sentence, the
\* application pops its frame and raises 'You do not say what to do with
\* <value>', which ends the line; the value is not returned to the caller.
C13_ValueInBodyRejected ==
    \A i \in Yields :
        /\ i + 1 = Len(log)
        /\ log[i + 1].e = "pop"
        /\ log[i + 1].id = log[i].id
        /\ lastErr.kind = "LogoError"
        /\ lastErr.msg = "You do not say what to do with"
        /\ lastErr.a = <<log[i].v>>

-----------------------------------------------------------------------------
(* Environment, driven directly: frames are pushed, popped, written and
   looked up in any order *)

EnvNames == {W(<<"x">>), W(<<"y">>)}
EnvValues == {W(<<"1">>), W(<<"2">>)}

\* the dicts over EnvNames
EnvFrames == UNION {[D -> EnvValues] : D \in SUBSET EnvNames}

NoLookup ==
    [op |-> "none", symbol |-> None,
     r |-> [ok |-> TRUE, val |-> None, msg |-> ""], before |-> <<>>]

\* Environment(): one empty global frame
InitEnv ==
    /\ frames = <<EmptyFrame>>
    /\ procs = EmptyFrame
    /\ out = <<>>
    /\ src = <<>>
    /\ pc = "running"
    /\ lastErr = NoErr
    /\ lastRead = [k |-> "none", s |-> <<>>]
    /\ preDepth = 1
    /\ log = <<>>
    /\ nitems = 0
    /\ goodbyes = 0
    /\ inp = <<>>
    /\ res = NoLookup

EnvUnchanged ==
    UNCHANGED <<procs, out, src, pc, lastErr, lastRead, preDepth, log, nitems,
                goodbyes, inp>>

\* env.push_frame(frame)
PushFrame ==
    /\ Len(frames) < MaxStack
    /\ \E frame \in EnvFrames : frames' = push_frame(frames, frame)
    /\ res' = NoLookup
    /\ EnvUnchanged

\* env.pop_frame(), which logo_apply calls for a frame it pushed
PopFrame ==
    /\ Len(frames) > 1
    /\ frames' = pop_frame(frames)
    /\ res' = NoLookup
    /\ EnvUnchanged

\* env.set_variable_value(symbol, val)
SetVariable ==
    /\ \E symbol \in EnvNames, val \in EnvValues :
         frames' = set_variable_value(frames, symbol, val)
    /\ res' = NoLookup
    /\ EnvUnchanged

\* env.lookup_variable(symbol): the method reads self._frames and assigns
\* nothing
LookupVariable ==
    /\ \E symbol \in EnvNames :
         res' = [op |-> "lookup", symbol |-> symbol,
                 r |-> lookup_variable(frames, symbol), before |-> frames]
    /\ frames' = frames
    /\ EnvUnchanged

NextEnv == PushFrame \/ PopFrame \/ SetVariable \/ LookupVariable

SpecEnv == InitEnv /\ [][NextEnv]_vars

\* indices of the frames that bind symbol
Binders(fs, symbol) == {i \in 1..Len(fs) : symbol \in DOMAIN fs[i]}

\* C6: lookup_variable(name) returns the value name has in the innermost
\* (highest) frame that binds it, it fails with "<name> has no value" exactly
\* when no frame binds name, and the frames after the lookup are the frames
\* before it.
C6_LookupInnermostBinding ==
    res.op = "lookup" =>
        /\ frames = res.before
        /\ res.r.ok <=> Binders(res.before, res.symbol) # {}
        /\ res.r.ok =>
             res.r.val =
                 res.before[Max(Binders(res.before, res.symbol))][res.symbol]
        /\ ~res.r.ok => res.r.msg = "has no value" /\ res.r.val = None

\* a lookup of a name that the global frame and a pushed frame bind to
\* different values, below an innermost frame that does not bind it
C6_Witness ==
    /\ res.op = "lookup"
    /\ Len(frames) = 3
    /\ Binders(frames, res.symbol) = {1, 2}
    /\ frames[1][res.symbol] # frames[2][res.symbol]
    /\ res.r.ok
    /\ res.r.val = frames[2][res.symbol]

-----------------------------------------------------------------------------
(* logo_eval on infix expressions over integer literals *)

Literals == {W(IntToStr(n)) : n \in 1..MaxLit}
Operators == {W(<<c>>) : c \in {"+", "-", "*", "<", ">", "="}}

\* literal operator literal ... literal, with n operators
InfixOfSize(n) ==
    {[i \in 1..(2 * n + 1) |->
         IF i % 2 = 1 THEN ls[(i + 1) \div 2] ELSE os[i \div 2]] :
       ls \in [1..(n + 1) -> Literals], os \in [1..n -> Operators]}

Pending == [ok |-> FALSE, val |-> None, kind |-> "pending", idx |-> 0]

InitInfix ==
    /\ frames = <<EmptyFrame>>
    /\ procs = EmptyFrame
    /\ out = <<>>
    /\ src = <<>>
    /\ pc = "running"
    /\ lastErr = NoErr
    /\ lastRead = [k |-> "none", s |-> <<>>]
    /\ preDepth = 1
    /\ log = <<>>
    /\ nitems = 0
    /\ goodbyes = 0
    /\ \E n \in 0..MaxOps : inp \in InfixOfSize(n)
    /\ res = Pending

\* logo_eval(Buffer(inp), Environment())
EvalInfix ==
    /\ res = Pending
    /\ \E r \in {logo_eval(inp, 1,
                           [frames |-> frames, procs |-> procs, out |-> out,
                            src |-> src, log |-> <<>>, inv |-> <<>>,
                            ninv |-> 0], FALSE)} :
         res' = [ok |-> r.ok, val |-> r.val, kind |-> r.err.kind,
                 idx |-> r.idx]
    /\ UNCHANGED <<frames, procs, out, src, pc, lastErr, lastRead, preDepth,
                   log, nitems, goodbyes, inp>>

NextInfix == EvalInfix

SpecInfix == InitInfix /\ [][NextInfix]_vars

\* The reference evaluator: an expression is split at its loosest operator.
\* A value is an integer, a truth value or a failure.
RefInt(n) == [t |-> "int", n |-> n, b |-> FALSE]
RefBool(b) == [t |-> "bool", n |-> 0, b |-> b]
RefErr == [t |-> "err", n |-> 0, b |-> FALSE]

RefApply(operator, x, y) ==
    IF x.t = "err" \/ y.t = "err" THEN RefErr
    ELSE IF operator = "=" THEN RefBool(x = y)
    ELSE IF x.t # "int" \/ y.t # "int" THEN RefErr
    ELSE IF operator = "+" THEN RefInt(x.n + y.n)
    ELSE IF operator = "-" THEN RefInt(x.n - y.n)
    ELSE IF operator = "*" THEN RefInt(x.n * y.n)
    ELSE IF operator = "<" THEN RefBool(x.n < y.n)
    ELSE RefBool(x.n > y.n)

\* positions in e of the operators in ops
OpsAt(e, ops) == {i \in 1..Len(e) : i % 2 = 0 /\ e[i].v[1] \in ops}

RECURSIVE RefProduct(_), RefArith(_), RefValue(_)

\* a chain of "*", grouped to the left
RefProduct(e) ==
    IF Len(e) = 1 THEN RefInt(StrToInt(e[1].v))
    ELSE RefApply("*", RefProduct(SubSeq(e, 1, Len(e) - 2)),
                  RefInt(StrToInt(e[Len(e)].v)))

\* products joined by "+" and "-", grouped to the left: the split is at the
\* last "+" or "-"
RefArith(e) ==
    IF OpsAt(e, {"+", "-"}) = {} THEN RefProduct(e)
    ELSE RefApply(e[Max(OpsAt(e, {"+", "-"}))].v[1],
                  RefArith(SubSeq(e, 1, Max(OpsAt(e, {"+", "-"})) - 1)),
                  RefProduct(SubSeq(e, Max(OpsAt(e, {"+", "-"})) + 1, Len(e))))

\* arithmetic on both sides of a relational operator; of several relational
\* operators the first is the loosest
RefValue(e) ==
    IF OpsAt(e, {"<", ">", "="}) = {} THEN RefArith(e)
    ELSE RefApply(e[Min(OpsAt(e, {"<", ">", "="}))].v[1],
                  RefArith(SubSeq(e, 1, Min(OpsAt(e, {"<", ">", "="})) - 1)),
                  RefValue(SubSeq(e, Min(OpsAt(e, {"<", ">", "="})) + 1,
                                  Len(e))))

\* the Logo value of a reference value
RefWord(x) == IF x.t = "int" THEN W(IntToStr(x.n)) ELSE Bool(x.b)

\* C7: on every sequence of integer literals joined by + - * < > =, logo_eval
\* consumes the whole sequence and returns the value of the reference
\* evaluator, in which * binds tighter than + and -, these bind tighter than
\* < > =, and + - * group to the left; it raises a LogoError exactly when the
\* reference evaluator fails (a truth value used as a number).
C7_InfixMatchesReference ==
    res # Pending =>
        /\ res.ok <=> RefValue(inp).t # "err"
        /\ res.ok => res.val = RefWord(RefValue(inp)) /\ res.idx = Len(inp) + 1
        /\ ~res.ok => res.kind = "LogoError"

\* 2 + 1 * 2 evaluated to 4 (grouping to the left would give 6)
C7_Witness ==
    /\ res # Pending
    /\ inp = <<W(<<"2">>), W(<<"+">>), W(<<"1">>), W(<<"*">>), W(<<"2">>)>>
    /\ res.ok
    /\ res.val = W(<<"4">>)

-----------------------------------------------------------------------------
(* type and print on sentences *)

TypeWords == {W(<<"a">>), W(<<"b">>)}

\* the sequences of at most MaxLen elements of S
SeqUpTo(S) == UNION {[1..n -> S] : n \in 0..MaxLen}

\* sentences of at most MaxLen elements nested at most depth deep
RECURSIVE Sentences(_)
Sentences(depth) ==
    IF depth = 0 THEN {L(e) : e \in SeqUpTo(TypeWords)}
    ELSE {L(e) : e \in SeqUpTo(TypeWords \cup Sentences(depth - 1))}

NotTyped == [op |-> "none", out |-> <<>>]

InitType ==
    /\ frames = <<EmptyFrame>>
    /\ procs = EmptyFrame
    /\ out = <<>>
    /\ src = <<>>
    /\ pc = "running"
    /\ lastErr = NoErr
    /\ lastRead = [k |-> "none", s |-> <<>>]
    /\ preDepth = 1
    /\ log = <<>>
    /\ nitems = 0
    /\ goodbyes = 0
    /\ inp \in Sentences(MaxNest)
    /\ res = NotTyped

TypeUnchanged ==
    UNCHANGED <<frames, procs, out, src, pc, lastErr, lastRead, preDepth, log,
                nitems, goodbyes, inp>>

\* logo_type(inp)
TypeSentence ==
    /\ res = NotTyped
    /\ res' = [op |-> "type", out |-> logo_type(inp, TRUE)]
    /\ TypeUnchanged

\* logo_print(inp): logo_type(inp) and print('')
PrintSentence ==
    /\ res = NotTyped
    /\ res' = [op |-> "print", out |-> logo_type(inp, TRUE) \o <<"\n">>]
    /\ TypeUnchanged

NextType == TypeSentence \/ PrintSentence

SpecType == InitType /\ [][NextType]_vars

\* the elements of e from the i-th on, each preceded by one space, a nested
\* sentence in brackets
RECURSIVE Spaced(_, _), Rendered(_)
Spaced(e, i) ==
    IF i > Len(e) THEN <<>>
    ELSE <<" ">> \o (IF e[i].k = "l" THEN <<"[">> \o Rendered(e[i].v) \o <<"]">>
                     ELSE e[i].v) \o Spaced(e, i + 1)

\* the elements of e in order, separated by one space
Rendered(e) == IF e = <<>> THEN <<>> ELSE Tail(Spaced(e, 1))

\* C8: type and print write the elements of a sentence in order, separated
\* by exactly one space, a nested sentence enclosed in [ and ], the top-level
\* sentence without brackets (print adds the newline).
C8_ElementsSingleSpaced ==
    /\ res.op = "type" => res.out = Rendered(inp.v)
    /\ res.op = "print" => res.out = Rendered(inp.v) \o <<"\n">>

-----------------------------------------------------------------------------
(* parse_line on lines over a small alphabet *)

ParseAlphabet == {"[", "]", " ", "a", "+"}

LinesOfLength(n) == [1..n -> ParseAlphabet]

NotParsed == [op |-> "none", tokens |-> <<>>, err |-> "", idx |-> 0]

InitParse ==
    /\ frames = <<EmptyFrame>>
    /\ procs = EmptyFrame
    /\ out = <<>>
    /\ src = <<>>
    /\ pc = "running"
    /\ lastErr = NoErr
    /\ lastRead = [k |-> "none", s |-> <<>>]
    /\ preDepth = 1
    /\ log = <<>>
    /\ nitems = 0
    /\ goodbyes = 0
    /\ \E n \in 0..MaxChars : inp \in LinesOfLength(n)
    /\ res = NotParsed

\* parse_line(inp)
ParseLine ==
    /\ res = NotParsed
    /\ \E b \in {parse_line(inp)} :
         res' = [op |-> "parse", tokens |-> b.tokens, err |-> b.err,
                 idx |-> b.idx]
    /\ UNCHANGED <<frames, procs, out, src, pc, lastErr, lastRead, preDepth,
                   log, nitems, goodbyes, inp>>

NextParse == ParseLine

SpecParse == InitParse /\ [][NextParse]_vars

\* number of "[" less number of "]" among the first n characters of s
RECURSIVE BracketDepth(_, _)
BracketDepth(s, n) ==
    IF n = 0 THEN 0
    ELSE BracketDepth(s, n - 1)
           + (IF s[n] = "[" THEN 1 ELSE IF s[n] = "]" THEN 0 - 1 ELSE 0)

\* some "]" closes nothing
ClosesTooMany(s) == \E n \in 1..Len(s) : BracketDepth(s, n) < 0

\* some "[" is never closed
LeftOpen(s) == BracketDepth(s, Len(s)) > 0

Bracket(c) == [k |-> "br", v |-> <<c>>]

\* the brackets and words of s from position i on, in order, without nesting
RECURSIVE FlatFrom(_, _, _)
FlatFrom(s, i, word) ==
    IF i > Len(s) THEN (IF word = <<>> THEN <<>> ELSE <<W(word)>>)
    ELSE IF s[i] \in {"[", "]", " ", "+"}
    THEN (IF word = <<>> THEN <<>> ELSE <<W(word)>>)
           \o (IF s[i] = " " THEN <<>>
               ELSE IF s[i] = "+" THEN <<W(<<"+">>)>> ELSE <<Bracket(s[i])>>)
           \o FlatFrom(s, i + 1, <<>>)
    ELSE FlatFrom(s, i + 1, Append(word, s[i]))

\* the tokens of a token tree from the i-th on, a nested sentence written
\* between its brackets
RECURSIVE Flatten(_, _)
Flatten(tokens, i) ==
    IF i > Len(tokens) THEN <<>>
    ELSE (IF tokens[i].k = "l"
          THEN <<Bracket("[")>> \o Flatten(tokens[i].v, 1) \o <<Bracket("]")>>
          ELSE <<tokens[i]>>) \o Flatten(tokens, i + 1)

\* C11: parse_line raises 'Unexpected "]"' exactly when some "]" closes
\* nothing, it raises 'Unmatched "["' exactly when no "]" closes nothing and
\* some "[" is left open, and otherwise it returns, having read the whole
\* line, a token tree whose sentences sit exactly where the line's bracket
\* pairs are.
C11_ParseBrackets ==
    res.op = "parse" =>
        /\ res.err = "Unexpected ]" <=> ClosesTooMany(inp)
        /\ res.err = "Unmatched [" <=> ~ClosesTooMany(inp) /\ LeftOpen(inp)
        /\ res.err \in {"", "Unexpected ]", "Unmatched ["}
        /\ res.err = "" =>
             /\ Flatten(res.tokens, 1) = FlatFrom(inp, 1, <<>>)
             /\ res.idx = Len(strip(inp)) + 1

\* a balanced line parsed to a sentence that stands between two words
C11_Witness ==
    /\ res.op = "parse"
    /\ res.err = ""
    /\ \E i \in 2..(Len(res.tokens) - 1) :
         /\ res.tokens[i].k = "l"
         /\ res.tokens[i - 1].k = "w"
         /\ res.tokens[i + 1].k = "w"

-----------------------------------------------------------------------------
(* apply_procedure on lines of argument expressions *)

ArgParams == <<"a", "b", "c", "d">>

ArgProcName(m) == W(<<"p", DigitChar(m)>>)

\* what `to p<m> :a :b ..` with the body lines `print :a`, `print :b`, ..
\* registers
ArgProc(m) ==
    Procedure(ArgProcName(m), m,
              [i \in 1..m |-> <<W(s_print), W(<<":", ArgParams[i]>>)>>],
              [i \in 1..m |-> W(<<ArgParams[i]>>)])

ArgTokens == {W(<<"1">>), W(<<"2">>), W(s_difference), W(<<"+">>)}

NotApplied ==
    [op |-> "none", m |-> 0, ok |-> TRUE, val |-> None, msg |-> "",
     a |-> <<>>, idx |-> 0, out |-> <<>>, frames |-> <<>>, calls |-> 0]

InitArgs ==
    /\ frames = <<EmptyFrame>>
    /\ procs = [name \in {ArgProcName(m) : m \in 0..MaxArity} |->
                  ArgProc(CHOOSE m \in 0..MaxArity : ArgProcName(m) = name)]
    /\ out = <<>>
    /\ src = <<>>
    /\ pc = "running"
    /\ lastErr = NoErr
    /\ lastRead = [k |-> "none", s |-> <<>>]
    /\ preDepth = 1
    /\ log = <<>>
    /\ nitems = 0
    /\ goodbyes = 0
    /\ \E n \in 0..MaxTokens : inp \in [1..n -> ArgTokens]
    /\ res = NotApplied

\* the outcome r of apply_procedure for a procedure of arity m
Applied(op, m, r) ==
    [op |-> op, m |-> m, ok |-> r.ok, val |-> r.val, msg |-> r.err.msg,
     a |-> r.err.a, idx |-> r.idx, out |-> r.st.out, frames |-> r.st.frames,
     calls |-> Cardinality({i \in 1..Len(r.st.log) : r.st.log[i].e = "call"})]

ArgsUnchanged ==
    UNCHANGED <<frames, procs, out, src, pc, lastErr, lastRead, preDepth, log,
                nitems, goodbyes, inp>>

\* apply_procedure(proc, Buffer(inp), env) for a user-defined procedure
\* (needs_env is set)
ApplyUserProcedure ==
    /\ res = NotApplied
    /\ \E m \in 0..MaxArity :
         res' = Applied("user", m,
                    apply_procedure(procs[ArgProcName(m)], inp, 1,
                        [frames |-> frames, procs |-> procs, out |-> out,
                         src |-> src, log |-> <<>>, inv |-> <<>>,
                         ninv |-> 0]))
    /\ ArgsUnchanged

\* apply_procedure(proc, Buffer(inp), env) for the primitive difference
ApplyPrimitive ==
    /\ res = NotApplied
    /\ res' = Applied("primitive", 2,
                  apply_procedure(Primitive("difference"), inp, 1,
                      [frames |-> frames, procs |-> procs, out |-> out,
                       src |-> src, log |-> <<>>, inv |-> <<>>, ninv |-> 0]))
    /\ ArgsUnchanged

NextArgs == ApplyUserProcedure \/ ApplyPrimitive

SpecArgs == InitArgs /\ [][NextArgs]_vars

\* The reference reader of argument expressions.  An expression is a chain of
\* terms joined by "+"; a term is a literal or difference followed by two
\* expressions.
RefFail == [ok |-> FALSE, n |-> 0, idx |-> 0]
RefRead(n, idx) == [ok |-> TRUE, n |-> n, idx |-> idx]

RECURSIVE RefTerm(_, _), RefChain(_, _)

RefExpr(line, i) == RefChain(line, RefTerm(line, i))

RefDifference(x, y) == IF y.ok THEN RefRead(x.n - y.n, y.idx) ELSE RefFail

RefFirst(line, x) ==
    IF x.ok THEN RefDifference(x, RefExpr(line, x.idx)) ELSE RefFail

RefTerm(line, i) ==
    IF i > Len(line) THEN RefFail
    ELSE IF IsNumeral(line[i].v) THEN RefRead(StrToInt(line[i].v), i + 1)
    ELSE IF line[i].v = s_difference THEN RefFirst(line, RefExpr(line, i + 1))
    ELSE RefFail

RefPlus(line, t, u) ==
    IF u.ok THEN RefChain(line, RefRead(t.n + u.n, u.idx)) ELSE RefFail

RefChain(line, t) ==
    IF ~t.ok THEN RefFail
    ELSE IF t.idx <= Len(line) /\ line[t.idx].v = <<"+">>
    THEN RefPlus(line, t, RefTerm(line, t.idx + 1))
    ELSE t

\* m expressions read one after the other: "done" with their values and the
\* position after the last, "short" where the line ends after found
\* expressions, "fail" where an expression cannot be read
RECURSIVE RefArgs(_, _, _)
RefArgsNext(line, m, c, x) ==
    IF x.ok
    THEN RefArgs(line, m, [c EXCEPT !.vals = Append(@, x.n), !.idx = x.idx])
    ELSE [c EXCEPT !.kind = "fail"]

RefArgs(line, m, c) ==
    IF Len(c.vals) = m THEN [c EXCEPT !.kind = "done"]
    ELSE IF c.idx > Len(line) THEN [c EXCEPT !.kind = "short"]
    ELSE RefArgsNext(line, m, c, RefExpr(line, c.idx))

RefCollected(line, m) ==
    RefArgs(line, m, [kind |-> "", vals |-> <<>>, idx |-> 1])

\* what the body lines print a, print b, .. write for the values vals
RECURSIVE PrintedArgs(_)
PrintedArgs(vals) ==
    IF vals = <<>> THEN <<>>
    ELSE IntToStr(Head(vals)) \o <<"\n">> \o PrintedArgs(Tail(vals))

\* the frame dict(zip(formal_params, args)) for the values vals
ArgsFrame(vals) ==
    [x \in {W(<<ArgParams[i]>>) : i \in 1..Len(vals)} |->
       W(IntToStr(vals[CHOOSE i \in 1..Len(vals) : x = W(<<ArgParams[i]>>)]))]

\* C14: apply_procedure on a procedure of arity m evaluates exactly m
\* argument expressions, left to right, and leaves the cursor just after the
\* m-th; where the line ends after N < m arguments it fails with 'Found only
\* N of m args' and the procedure is not applied; a procedure that needs the
\* environment gets the caller's environment, where its frame appears.
C14_ExactlyArityArguments ==
    res.op # "none" =>
        /\ RefCollected(inp, res.m).kind = "done" =>
             /\ res.ok
             /\ res.idx = RefCollected(inp, res.m).idx
             /\ res.op = "user" =>
                  /\ res.calls = 1
                  /\ res.out = PrintedArgs(RefCollected(inp, res.m).vals)
                  /\ res.frames =
                       <<EmptyFrame, ArgsFrame(RefCollected(inp, res.m).vals)>>
             /\ res.op = "primitive" =>
                  res.val = W(IntToStr(RefCollected(inp, res.m).vals[1]
                                         - RefCollected(inp, res.m).vals[2]))
        /\ RefCollected(inp, res.m).kind = "short" =>
             /\ ~res.ok
             /\ res.msg = "Found only N of M args"
             /\ res.a = <<Len(RefCollected(inp, res.m).vals), res.m>>
        /\ RefCollected(inp, res.m).kind # "done" =>
             /\ ~res.ok
             /\ res.calls = 0
             /\ res.out = <<>>
             /\ res.frames = <<EmptyFrame>>

\* p2 applied to `2 + 1 1`: the arguments 3 and 1 are printed in this order
\* and the whole line is read
C14_Witness ==
    /\ res.op = "user"
    /\ res.m = 2
    /\ inp = <<W(<<"2">>), W(<<"+">>), W(<<"1">>), W(<<"1">>)>>
    /\ res.ok
    /\ res.idx = 5
    /\ res.out = <<"3", "\n", "1", "\n">>

-----------------------------------------------------------------------------
(* logo_eval on a single quoted, variable or plain token *)

TokenAlphabet == {"\"", ":", "x", "y"}

TokensOfLength(n) == {W(t) : t \in [1..n -> TokenAlphabet]}

NotEvaluated == [op |-> "none", ok |-> TRUE, val |-> None, kind |-> ""]

\* an environment in which x has the value 1
InitToken ==
    /\ frames = <<Put(EmptyFrame, W(<<"x">>), W(<<"1">>))>>
    /\ procs = EmptyFrame
    /\ out = <<>>
    /\ src = <<>>
    /\ pc = "running"
    /\ lastErr = NoErr
    /\ lastRead = [k |-> "none", s |-> <<>>]
    /\ preDepth = 1
    /\ log = <<>>
    /\ nitems = 0
    /\ goodbyes = 0
    /\ \E n \in 1..MaxTokLen : inp \in TokensOfLength(n)
    /\ res = NotEvaluated

\* logo_eval(Buffer([inp]), env)
EvalToken ==
    /\ res = NotEvaluated
    /\ \E r \in {logo_eval(<<inp>>, 1,
                           [frames |-> frames, procs |-> procs, out |-> out,
                            src |-> src, log |-> <<>>, inv |-> <<>>,
                            ninv |-> 0], FALSE)} :
         res' = [op |-> "eval", ok |-> r.ok, val |-> r.val,
                 kind |-> r.err.kind]
    /\ UNCHANGED <<frames, procs, out, src, pc, lastErr, lastRead, preDepth,
                   log, nitems, goodbyes, inp>>

NextToken == EvalToken

SpecToken == InitToken /\ [][NextToken]_vars

\* C15: the evaluation of the token " and of the token : fails, and every
\* token starting with " or : whose evaluation yields a value has a character
\* after the prefix.
C15_PrefixOnlyRejected ==
    res.op = "eval" =>
        /\ inp.v \in {<<"\"">>, <<":">>} => ~res.ok
        /\ res.ok /\ inp.v[1] \in {"\"", ":"} => Len(inp.v) >= 2

-----------------------------------------------------------------------------
(* A definition line read by the top level, its continuation lines pulled
   from the same source *)

DefParams == <<"a", "b", "c">>

\* the line `to f :a :b ..` with k formal parameters
RECURSIVE DefLine(_)
DefLine(k) ==
    IF k = 0 THEN <<"t", "o", " ", "f">>
    ELSE DefLine(k - 1) \o <<" ", ":", DefParams[k]>>

\* lines the source may hold after the definition line
SourceLines ==
    { <<"p","r","i","n","t"," ","1">>,
      <<"p","r","i","n","t"," ",":","a">>,
      <<"e","n","d">>,
      <<" ","e","n","d"," ">>,
      <<"[","e","n","d","]">>,
      <<"t","o"," ","g">> }

NotDefined ==
    [op |-> "none", ok |-> TRUE, val |-> None, kind |-> "", src |-> <<>>]

\* run_interpreter with a source file: inp is the number of parameters of
\* the definition line that get_next_line has just returned, src the lines
\* left in the file
InitDef ==
    /\ frames = <<EmptyFrame>>
    /\ procs = EmptyFrame
    /\ out = <<>>
    /\ \E n \in 0..MaxSrc : src \in [1..n -> SourceLines]
    /\ pc = "running"
    /\ lastErr = NoErr
    /\ lastRead = [k |-> "none", s |-> <<>>]
    /\ preDepth = 1
    /\ log = <<>>
    /\ nitems = 0
    /\ goodbyes = 0
    /\ inp \in 0..MaxParams
    /\ res = NotDefined

\* interpret_line(line, env) for the definition line
EvalDefinition ==
    /\ res = NotDefined
    /\ \E r \in {interpret_line(DefLine(inp),
                     [frames |-> frames, procs |-> procs, out |-> out,
                      src |-> src, log |-> <<>>, inv |-> <<>>, ninv |-> 0])} :
         /\ res' = [op |-> "def", ok |-> r.ok, val |-> r.val,
                    kind |-> r.err.kind, src |-> src]
         /\ frames' = r.st.frames
         /\ procs' = r.st.procs
         /\ out' = r.st.out
         /\ src' = r.st.src
    /\ UNCHANGED <<pc, lastErr, lastRead, preDepth, log, nitems, goodbyes,
                   inp>>

NextDef == EvalDefinition

SpecDef == InitDef /\ [][NextDef]_vars

\* the line with leading and trailing spaces removed reads end
ReadsEnd(line) ==
    \E i \in 1..Len(line) :
        /\ i + 2 <= Len(line)
        /\ line[i] = "e" /\ line[i + 1] = "n" /\ line[i + 2] = "d"
        /\ \A j \in 1..Len(line) : j < i \/ j > i + 2 => line[j] = " "

\* position in lines of the first end line, 0 if there is none
FirstEnd(lines) ==
    IF \A i \in 1..Len(lines) : ~ReadsEnd(lines[i]) THEN 0
    ELSE Min({i \in 1..Len(lines) : ReadsEnd(lines[i])})

\* C16: a definition line `to f p1 .. pk` read when the source holds an end
\* line yields none without error, removes from the source the lines up to
\* and including the first end line, and registers under f a non-primitive
\* procedure of arity k whose formal parameters are p1..pk without the colon
\* and whose body is the tokenized lines before that end line, in order;
\* the evaluator prints nothing and touches no frame, so no body line was
\* evaluated (the echo of the lines by generate_lines is not part of out).
C16_DefinitionReadsToEnd ==
    res.op = "def" /\ FirstEnd(res.src) # 0 =>
        /\ res.ok
        /\ res.val = None
        /\ src = SubSeq(res.src, FirstEnd(res.src) + 1, Len(res.src))
        /\ DOMAIN procs = {W(<<"f">>)}
        /\ procs[W(<<"f">>)] =
             [isprimitive |-> FALSE, name |-> W(<<"f">>), arg_count |-> inp,
              body |-> [i \in 1..(FirstEnd(res.src) - 1) |->
                          parse_line(res.src[i]).tokens],
              formal_params |-> [i \in 1..inp |-> W(<<DefParams[i]>>)]]
        /\ out = <<>>
        /\ frames = <<EmptyFrame>>

\* to f :a :b followed by print :a, an end line and print 1: the body is the
\* one line print :a and print 1 is left in the source
C16_Witness ==
    /\ res.op = "def"
    /\ inp = 2
    /\ res.src = << <<"p","r","i","n","t"," ",":","a">>, <<"e","n","d">>,
                    <<"p","r","i","n","t"," ","1">> >>
    /\ src = << <<"p","r","i","n","t"," ","1">> >>
    /\ procs[W(<<"f">>)].body = << <<W(s_print), W(<<":", "a">>)>> >>

=============================================================================
